---- MODULE Spec2Model ----
(***************************************************************************)
(* Model of the reach-avoid training utilities of VLTSafe:                 *)
(*   - ReplayBuffer / ReplayBufferMultimodal  (models/RARL/utils.py)       *)
(*   - TopKLogger                            (models/RARL/utils.py)       *)
(*   - BaseMujocoEnv.get_cost / get_done     (envs/base_env.py)           *)
(* Every object is a record holding the attributes the Python object       *)
(* holds.  The objects share no state, so a behaviour exercises one of     *)
(* them, chosen by `unit` in the initial state.                            *)
(* Array values are small integers; they stand for float32 values that     *)
(* are exactly representable, so the dtype casts of the arrays keep them.  *)
(***************************************************************************)
EXTENDS Integers, Sequences, FiniteSets, TLC

\* ---------------------------------------------------------------- bounds
MaxCap == 2
MaxStores == 3
MaxBatch == 2
MaxK == 2
MaxPushes == 4
BatchLen == 2
MaxDoneCalls == 3
MaxModel == 2
MaxSaves == 3
MaxStep == 2

VARIABLES
    unit,       \* which object this behaviour exercises
    op,         \* name of the last call made ("init" after construction)
    args,       \* arguments of the last call
    ret,        \* value returned by the last call ("None" when it raised)
    raised,     \* exception raised by the last call, "None" when it returned
    rb,         \* the ReplayBuffer object
    mrb,        \* the ReplayBufferMultimodal object
    idxs,       \* the indices the last sample_batch drew (its local idxs)
    tk,         \* the TopKLogger object
    env,        \* the BaseMujocoEnv object (its configuration and failure_mode)
    files,      \* the names of the *.pth files in logs_path
    MAX_MODEL,  \* the retention limit the save_model calls pass
    ncalls,     \* history: the number of get_done (or save_model) calls so far
    hist,       \* history: the transitions passed to store, in call order
    written,    \* history: the slots some store call has written
    pushed      \* history: the scores passed to push, in call order

vars == <<unit, op, args, ret, raised, rb, mrb, idxs, tk, env, files, MAX_MODEL,
          ncalls, hist, written, pushed>>

None == "None"

\* Values of the array entries a store call passes.
Vals == {0, 1}

\* ------------------------------------------------------------ ReplayBuffer

\* The arguments of one store call.
Transition(v, w) ==
    [obs |-> v, act |-> w, rew |-> v + w, next_obs |-> w + 2,
     done |-> IF v = w THEN 1 ELSE 0, lx |-> v - w, gx |-> w - v]

Transitions == { Transition(v, w) : v \in Vals, w \in Vals }

\* np.zeros(combined_shape(size, ...)): an array of `size` zero entries.
Zeros(size) == [i \in 0..(size - 1) |-> 0]

\* ReplayBuffer.__init__(obs_dim, act_dim, size, device)
ReplayBufferInit(size) ==
    [obs_buf |-> Zeros(size), obs2_buf |-> Zeros(size), act_buf |-> Zeros(size),
     rew_buf |-> Zeros(size), done_buf |-> Zeros(size), lx_buf |-> Zeros(size),
     gx_buf |-> Zeros(size), ptr |-> 0, size |-> 0, max_size |-> size,
     ptr_start |-> 0]

Min(a, b) == IF a < b THEN a ELSE b
Max(a, b) == IF a > b THEN a ELSE b

NextPtrSaturating(b) == Min(b.ptr + 1, b.max_size - 1)

\* self.ptr_start + (self.ptr+1-self.ptr_start) % (self.max_size-self.ptr_start)
NextPtr(b) == b.ptr_start + ((b.ptr + 1 - b.ptr_start) % (b.max_size - b.ptr_start))

\* min(self.size+1, self.max_size)
NextSize(b) == Min(b.size + 1, b.max_size)

\* ReplayBuffer.store(obs, act, rew, next_obs, done, lx, gx)
StoreInto(b, t) ==
    [b EXCEPT !.obs_buf[b.ptr] = t.obs,
              !.obs2_buf[b.ptr] = t.next_obs,
              !.act_buf[b.ptr] = t.act,
              !.rew_buf[b.ptr] = t.rew,
              !.done_buf[b.ptr] = t.done,
              !.lx_buf[b.ptr] = t.lx,
              !.gx_buf[b.ptr] = t.gx,
              !.ptr = NextPtr(b),
              !.size = NextSize(b)]

SampleRangeCapacity(b) == 0..(b.max_size - 1)

\* np.random.randint(0, self.size, size=batch_size): the values one index can take
SampleRange(b) == 0..(b.size - 1)

BatchAtObsTwice(b, ix) ==
    [obs  |-> [i \in DOMAIN ix |-> b.obs_buf[ix[i]]],
     obs2 |-> [i \in DOMAIN ix |-> b.obs_buf[ix[i]]],
     act  |-> [i \in DOMAIN ix |-> b.act_buf[ix[i]]],
     rew  |-> [i \in DOMAIN ix |-> b.rew_buf[ix[i]]],
     done |-> [i \in DOMAIN ix |-> b.done_buf[ix[i]]],
     lx   |-> [i \in DOMAIN ix |-> b.lx_buf[ix[i]]],
     gx   |-> [i \in DOMAIN ix |-> b.gx_buf[ix[i]]]]

\* dict(obs=self.obs_buf[idxs], ...): the batch read at the drawn indices
BatchAt(b, ix) ==
    [obs  |-> [i \in DOMAIN ix |-> b.obs_buf[ix[i]]],
     obs2 |-> [i \in DOMAIN ix |-> b.obs2_buf[ix[i]]],
     act  |-> [i \in DOMAIN ix |-> b.act_buf[ix[i]]],
     rew  |-> [i \in DOMAIN ix |-> b.rew_buf[ix[i]]],
     done |-> [i \in DOMAIN ix |-> b.done_buf[ix[i]]],
     lx   |-> [i \in DOMAIN ix |-> b.lx_buf[ix[i]]],
     gx   |-> [i \in DOMAIN ix |-> b.gx_buf[ix[i]]]]

Store ==
    /\ unit = "ReplayBuffer"
    /\ Len(hist) < MaxStores
    /\ \E t \in Transitions :
        /\ rb' = StoreInto(rb, t)
        /\ hist' = Append(hist, t)
        /\ written' = written \cup {rb.ptr}
        /\ op' = "store"
        /\ args' = t
        /\ ret' = None
        /\ raised' = None
    /\ UNCHANGED <<files, MAX_MODEL, unit, mrb, idxs, tk, env, ncalls, pushed>>

SampleBatch ==
    /\ unit = "ReplayBuffer"
    /\ \E n \in 1..MaxBatch :
        /\ op' = "sample_batch"
        /\ args' = n
        /\ IF SampleRange(rb) = {}
           THEN \* randint raises ValueError: low >= high
                /\ idxs' = None
                /\ ret' = None
                /\ raised' = "ValueError"
           ELSE \E drawn \in [1..n -> SampleRange(rb)] :
                /\ idxs' = drawn
                /\ ret' = BatchAt(rb, drawn)
                /\ raised' = None
    /\ UNCHANGED <<files, MAX_MODEL, unit, rb, mrb, tk, env, ncalls, hist, written, pushed>>

\* -------------------------------------------------- ReplayBufferMultimodal

\* The keys of env_observation_shapes
Streams == {"rgb", "state"}

\* 'rgb' in obs_type
IsRgb(obs_type) == obs_type = "rgb"

\* Assignment into an array of dtype uint8 ('rgb' streams) or float32
Cast(obs_type, v) == IF IsRgb(obs_type) THEN v % 256 ELSE v

\* The arguments of one multimodal store call: obs and next_obs are dicts.
MTransition(v, w) ==
    [obs |-> [s \in Streams |-> IF IsRgb(s) THEN v + 200 ELSE v],
     act |-> w, rew |-> v + w,
     next_obs |-> [s \in Streams |-> IF IsRgb(s) THEN w + 100 ELSE w + 2],
     done |-> IF v = w THEN 1 ELSE 0, lx |-> v - w, gx |-> w - v]

MTransitions == { MTransition(v, w) : v \in Vals, w \in Vals }

\* ReplayBufferMultimodal.__init__(env_observation_shapes, act_dim, size, device)
ReplayBufferMultimodalInit(size) ==
    [obs_buf |-> [s \in Streams |-> Zeros(size)],
     obs2_buf |-> [s \in Streams |-> Zeros(size)],
     act_buf |-> Zeros(size), rew_buf |-> Zeros(size), done_buf |-> Zeros(size),
     lx_buf |-> Zeros(size), gx_buf |-> Zeros(size),
     ptr |-> 0, size |-> 0, max_size |-> size, ptr_start |-> 0]

\* The loop `for obs_type in obs.keys()` of store: one write per key of obs
StreamWrites(buf, d, ptr) ==
    [s \in DOMAIN buf |->
        IF s \in DOMAIN d THEN [buf[s] EXCEPT ![ptr] = Cast(s, d[s])] ELSE buf[s]]

MStoreIntoObsTwice(b, t) ==
    [b EXCEPT !.obs_buf = StreamWrites(@, t.obs, b.ptr),
              !.obs2_buf = StreamWrites(@, t.obs, b.ptr),
              !.act_buf[b.ptr] = t.act,
              !.rew_buf[b.ptr] = t.rew,
              !.done_buf[b.ptr] = t.done,
              !.lx_buf[b.ptr] = t.lx,
              !.gx_buf[b.ptr] = t.gx,
              !.ptr = NextPtr(b),
              !.size = NextSize(b)]

\* ReplayBufferMultimodal.store(obs, act, rew, next_obs, done, lx, gx)
MStoreInto(b, t) ==
    [b EXCEPT !.obs_buf = StreamWrites(@, t.obs, b.ptr),
              !.obs2_buf = StreamWrites(@, t.next_obs, b.ptr),
              !.act_buf[b.ptr] = t.act,
              !.rew_buf[b.ptr] = t.rew,
              !.done_buf[b.ptr] = t.done,
              !.lx_buf[b.ptr] = t.lx,
              !.gx_buf[b.ptr] = t.gx,
              !.ptr = NextPtr(b),
              !.size = NextSize(b)]

\* The batch of ReplayBufferMultimodal.sample_batch; unsqueeze(1) wraps each
\* entry of the streams and of act in a window of length 1.
MBatchAt(b, ix) ==
    [obs  |-> [s \in DOMAIN b.obs_buf |-> [i \in DOMAIN ix |-> <<b.obs_buf[s][ix[i]]>>]],
     obs2 |-> [s \in DOMAIN b.obs_buf |-> [i \in DOMAIN ix |-> <<b.obs2_buf[s][ix[i]]>>]],
     act  |-> [i \in DOMAIN ix |-> <<b.act_buf[ix[i]]>>],
     rew  |-> [i \in DOMAIN ix |-> b.rew_buf[ix[i]]],
     done |-> [i \in DOMAIN ix |-> b.done_buf[ix[i]]],
     lx   |-> [i \in DOMAIN ix |-> b.lx_buf[ix[i]]],
     gx   |-> [i \in DOMAIN ix |-> b.gx_buf[ix[i]]]]

MStore ==
    /\ unit = "ReplayBufferMultimodal"
    /\ Len(hist) < MaxStores
    /\ \E t \in MTransitions :
        /\ mrb' = MStoreInto(mrb, t)
        /\ hist' = Append(hist, t)
        /\ written' = written \cup {mrb.ptr}
        /\ op' = "store"
        /\ args' = t
        /\ ret' = None
        /\ raised' = None
    /\ UNCHANGED <<files, MAX_MODEL, unit, rb, idxs, tk, env, ncalls, pushed>>

MSampleBatch ==
    /\ unit = "ReplayBufferMultimodal"
    /\ \E n \in 1..MaxBatch :
        /\ op' = "sample_batch"
        /\ args' = n
        /\ IF SampleRange(mrb) = {}
           THEN \* randint raises ValueError: low >= high
                /\ idxs' = None
                /\ ret' = None
                /\ raised' = "ValueError"
           ELSE \E drawn \in [1..n -> SampleRange(mrb)] :
                /\ idxs' = drawn
                /\ ret' = MBatchAt(mrb, drawn)
                /\ raised' = None
    /\ UNCHANGED <<files, MAX_MODEL, unit, rb, mrb, tk, env, ncalls, hist, written, pushed>>

\* The two buffers side by side: one transition is stored into both, the flat
\* buffer taking the 'state' stream as its observation vector.
StorePair ==
    /\ unit = "BufferPair"
    /\ Len(hist) < MaxStores
    /\ \E v \in Vals, w \in Vals :
        /\ rb' = StoreInto(rb, Transition(v, w))
        /\ mrb' = MStoreInto(mrb, MTransition(v, w))
        /\ hist' = Append(hist, [flat |-> Transition(v, w), multi |-> MTransition(v, w)])
        /\ args' = [flat |-> Transition(v, w), multi |-> MTransition(v, w)]
    /\ written' = written \cup {rb.ptr}
    /\ op' = "store"
    /\ ret' = None
    /\ raised' = None
    /\ UNCHANGED <<files, MAX_MODEL, unit, idxs, tk, env, ncalls, pushed>>

\* -------------------------------------------------------------- TopKLogger

\* Success scores, in hundredths (0.1, 0.5, 0.9, 0.95), and checkpoint names,
\* ordered as Python orders the strings.
Scores == {10, 50, 90, 95}
Ckpts == {1, 2}

\* TopKLogger.__init__(k)
TopKLoggerInit(k) == [max_to_keep |-> k, checkpoint_queue |-> <<>>]

\* Python's order on the tuples (success, ckpt)
TupleLess(x, y) == x[1] < y[1] \/ (x[1] = y[1] /\ x[2] < y[2])

\* heapq._siftdown(heap, startpos, pos); position p of the list is heap[p + 1]
RECURSIVE SiftdownLoop(_, _, _, _)
SiftdownLoop(heap, startpos, pos, newitem) ==
    IF pos > startpos /\ TupleLess(newitem, heap[((pos - 1) \div 2) + 1])
    THEN SiftdownLoop([heap EXCEPT ![pos + 1] = heap[((pos - 1) \div 2) + 1]],
                      startpos, (pos - 1) \div 2, newitem)
    ELSE [heap EXCEPT ![pos + 1] = newitem]

Siftdown(heap, startpos, pos) == SiftdownLoop(heap, startpos, pos, heap[pos + 1])

\* heapq._siftup(heap, pos)
RECURSIVE SiftupLoop(_, _, _, _, _)
SiftupLoop(heap, startpos, pos, childpos, newitem) ==
    IF childpos < Len(heap)
    THEN LET rightpos == childpos + 1
             c == IF rightpos < Len(heap)
                     /\ ~TupleLess(heap[childpos + 1], heap[rightpos + 1])
                  THEN rightpos ELSE childpos
         IN  SiftupLoop([heap EXCEPT ![pos + 1] = heap[c + 1]],
                        startpos, c, 2 * c + 1, newitem)
    ELSE Siftdown([heap EXCEPT ![pos + 1] = newitem], startpos, pos)

Siftup(heap, pos) == SiftupLoop(heap, pos, pos, 2 * pos + 1, heap[pos + 1])

\* heappush(heap, item)
heappush(heap, item) == Siftdown(Append(heap, item), 0, Len(heap))

heappopLast(heap) == SubSeq(heap, 1, Len(heap) - 1)

\* heappop(heap): the list it leaves (the popped item is not used by push)
heappop(heap) ==
    LET lastelt == heap[Len(heap)]
        rest == SubSeq(heap, 1, Len(heap) - 1)
    IN  IF rest # <<>> THEN Siftup([rest EXCEPT ![1] = lastelt], 0) ELSE rest

ImprovesOrTies(curr_min_success, success) == curr_min_success <= success

\* curr_min_success < success
Improves(curr_min_success, success) == curr_min_success < success

\* TopKLogger.push(ckpt, success): the object it leaves and the value it returns
PushResult(t, ckpt, success) ==
    IF Len(t.checkpoint_queue) < t.max_to_keep
    THEN [tk |-> [t EXCEPT !.checkpoint_queue = heappush(@, <<success, ckpt>>)],
          ret |-> TRUE]
    ELSE IF Improves(t.checkpoint_queue[1][1], success)
         THEN [tk |-> [t EXCEPT !.checkpoint_queue =
                                    heappush(heappop(@), <<success, ckpt>>)],
               ret |-> TRUE]
         ELSE [tk |-> t, ret |-> FALSE]

\* max over the list in Python's tuple order
RECURSIVE MaxTuple(_)
MaxTuple(q) ==
    IF Len(q) = 1 THEN q[1]
    ELSE LET m == MaxTuple(Tail(q))
         IN  IF TupleLess(q[1], m) THEN m ELSE q[1]

nsmallest1(q) == IF q = <<>> THEN <<>> ELSE <<q[1]>>

\* heapq.nlargest(1, self.checkpoint_queue): a list of the maximum, or []
nlargest1(q) == IF q = <<>> THEN <<>> ELSE <<MaxTuple(q)>>

Push ==
    /\ unit = "TopKLogger"
    /\ Len(pushed) < MaxPushes
    /\ \E ckpt \in Ckpts, success \in Scores :
        LET r == PushResult(tk, ckpt, success)
        IN  /\ tk' = r.tk
            /\ ret' = r.ret
            /\ args' = [ckpt |-> ckpt, success |-> success]
            /\ pushed' = Append(pushed, success)
    /\ op' = "push"
    /\ raised' = None
    /\ UNCHANGED <<files, MAX_MODEL, unit, rb, mrb, idxs, env, ncalls, hist, written>>

BestCkpt ==
    /\ unit = "TopKLogger"
    /\ op' = "best_ckpt"
    /\ args' = None
    /\ IF nlargest1(tk.checkpoint_queue) = <<>>
       THEN \* [][0] raises IndexError
            /\ ret' = None
            /\ raised' = "IndexError"
       ELSE /\ ret' = nlargest1(tk.checkpoint_queue)[1][2]
            /\ raised' = None
    /\ UNCHANGED <<files, MAX_MODEL, unit, rb, mrb, idxs, tk, env, ncalls, hist, written, pushed>>

\* ----------------------------------------------------------- BaseMujocoEnv

CostTypes == {"dense_ell", "dense", "sparse", "max_ell_g"}
DoneTypes == {"toEnd", "fail", "TF", "all", "real"}
ReturnTypes == {"reward", "cost"}
\* env_cfg.reward and env_cfg.penalty
Rewards == {5}
Penalties == {7}
\* Values of the margins l_x and g_x
Margins == {-1, 1}
Batch == 1..BatchLen

\* BaseMujocoEnv.__init__(device, cfg); failure_mode is None at episode start
EnvInit(costType, return_type, shape_reward, reward, penalty, doneType) ==
    [reward |-> reward, penalty |-> penalty, doneType |-> doneType,
     costType |-> costType, return_type |-> return_type,
     shape_reward |-> shape_reward, failure_mode |-> None]

\* 'reward' in self.return_type
IsReward(return_type) == return_type = "reward"

\* a[mask] = val on an array
MaskAssign(a, mask, val) == [i \in DOMAIN a |-> IF mask[i] THEN val ELSE a[i]]

MaxEllGSwapped(return_type, l_x, g_x) ==
    IF IsReward(return_type)
    THEN [i \in DOMAIN l_x |-> Max(l_x[i], g_x[i])]
    ELSE [i \in DOMAIN l_x |-> Min(l_x[i], g_x[i])]

\* The costType 'max_ell_g' branch: np.minimum(l_x, g_x) or np.maximum(l_x, g_x)
MaxEllG(return_type, l_x, g_x) ==
    IF IsReward(return_type)
    THEN [i \in DOMAIN l_x |-> Min(l_x[i], g_x[i])]
    ELSE [i \in DOMAIN l_x |-> Max(l_x[i], g_x[i])]

\* The first branch of get_cost: the object `cost` names.  ref "l_x" means
\* cost is the caller's l_x array itself; "new" a fresh array; "float" the
\* Python float 0.; "raise" the ValueError of the last branch.
CostObject(e, l_x, g_x) ==
    IF e.costType = "dense_ell" THEN [ref |-> "l_x", val |-> l_x]
    ELSE IF e.costType = "dense"
    THEN [ref |-> "new", val |-> [i \in DOMAIN l_x |-> l_x[i] + g_x[i]]]
    ELSE IF e.costType = "sparse" THEN [ref |-> "float", val |-> 0]
    ELSE IF e.costType = "max_ell_g"
    THEN [ref |-> "new", val |-> MaxEllG(e.return_type, l_x, g_x)]
    ELSE [ref |-> "raise", val |-> None]

\* The value written at success entries and at fail entries
SuccessValue(e) == IF IsReward(e.return_type) THEN (-1) * e.reward ELSE e.reward
FailValue(e) == IF IsReward(e.return_type) THEN (-1) * e.penalty ELSE e.penalty

\* The four masked writes of the shape_reward branch, in the order of the
\* code; mem holds the arrays l_x, g_x and the fresh array "new", and cost
\* names mem[ref].
ShapeWrites(e, mem, ref, success, fail) ==
    LET m1 == [mem EXCEPT ![ref] = MaskAssign(@, success, SuccessValue(e))]
        m2 == [m1 EXCEPT ![ref] = MaskAssign(@, fail, FailValue(e))]
        m3 == [m2 EXCEPT !["l_x"] = MaskAssign(@, success, SuccessValue(e))]
        m4 == [m3 EXCEPT !["g_x"] = MaskAssign(@, fail, FailValue(e))]
    IN  m4

\* BaseMujocoEnv.get_cost(l_x, g_x, success, fail)
GetCostResult(e, l_x, g_x, success, fail) ==
    LET c == CostObject(e, l_x, g_x)
        mem0 == [l_x |-> l_x, g_x |-> g_x,
                 new |-> IF c.ref = "new" THEN c.val ELSE l_x]
    IN  IF c.ref = "raise"
        THEN [raised |-> "ValueError", ret |-> None]
        ELSE IF ~e.shape_reward
        THEN [raised |-> None, ret |-> [cost |-> c.val, l_x |-> l_x, g_x |-> g_x]]
        ELSE IF c.ref = "float"
        THEN \* cost[success] = ... on a float: item assignment is a TypeError
             [raised |-> "TypeError", ret |-> None]
        ELSE LET m == ShapeWrites(e, mem0, c.ref, success, fail)
             IN  [raised |-> None,
                  ret |-> [cost |-> m[c.ref], l_x |-> m["l_x"], g_x |-> m["g_x"]]]

\* The failure_mode update of the doneType 'all' and 'real' branches
FailureModeUpdate(failure_mode, within_env, success) ==
    IF failure_mode = None /\ within_env THEN "out_of_env"
    ELSE IF success THEN "success"
    ELSE failure_mode

DoneRealUsesFail(success, fail, within_env, real_fail) ==
    (fail \/ success) \/ within_env

\* np.logical_or(np.logical_or(real_fail, success), self.check_within_env(state))
DoneReal(success, fail, within_env, real_fail) ==
    (real_fail \/ success) \/ within_env

\* BaseMujocoEnv.get_done(state, success, fail); within_env and real_fail are
\* what check_within_env(state) and check_real_failure() return.
GetDoneResult(e, success, fail, within_env, real_fail) ==
    IF e.doneType = "toEnd"
    THEN [raised |-> None, ret |-> within_env, failure_mode |-> e.failure_mode]
    ELSE IF e.doneType = "fail"
    THEN [raised |-> None, ret |-> fail, failure_mode |-> e.failure_mode]
    ELSE IF e.doneType = "TF"
    THEN [raised |-> None, ret |-> (fail \/ success), failure_mode |-> e.failure_mode]
    ELSE IF e.doneType = "all"
    THEN [raised |-> None, ret |-> ((fail \/ success) \/ within_env),
          failure_mode |-> FailureModeUpdate(e.failure_mode, within_env, success)]
    ELSE IF e.doneType = "real"
    THEN [raised |-> None, ret |-> DoneReal(success, fail, within_env, real_fail),
          failure_mode |-> FailureModeUpdate(e.failure_mode, within_env, success)]
    ELSE [raised |-> "ValueError", ret |-> None, failure_mode |-> e.failure_mode]

\* The arguments of one get_cost call
CostInputs ==
    [l_x : [Batch -> Margins], g_x : [Batch -> Margins],
     success : [Batch -> BOOLEAN], fail : [Batch -> BOOLEAN]]

\* get_cost is called on the arguments the initial state holds.
GetCost ==
    /\ unit = "get_cost"
    /\ op = "init"
    /\ LET r == GetCostResult(env, args.l_x, args.g_x, args.success, args.fail)
       IN  /\ ret' = r.ret
           /\ raised' = r.raised
    /\ op' = "get_cost"
    /\ UNCHANGED <<files, MAX_MODEL, unit, args, rb, mrb, idxs, tk, env, ncalls, hist, written, pushed>>

GetDone ==
    /\ unit = "get_done"
    /\ ncalls < MaxDoneCalls
    /\ \E success \in BOOLEAN, fail \in BOOLEAN, within_env \in BOOLEAN,
          real_fail \in BOOLEAN :
        LET r == GetDoneResult(env, success, fail, within_env, real_fail)
        IN  /\ args' = [success |-> success, fail |-> fail,
                        within_env |-> within_env, real_fail |-> real_fail]
            /\ ret' = r.ret
            /\ raised' = r.raised
            /\ env' = [env EXCEPT !.failure_mode = r.failure_mode]
    /\ op' = "get_done"
    /\ ncalls' = ncalls + 1
    /\ UNCHANGED <<files, MAX_MODEL, unit, rb, mrb, idxs, tk, hist, written, pushed>>

\* ----------------------------------------------------------------- save_model

\* Strings are sequences of characters.  The label `types` of the calls, the
\* steps and the success scores (in hundredths) they pass.
Types == <<"Q">>
SaveSteps == 1..MaxStep
SaveScores == {0, 95}

DigitChar == <<"0", "1", "2", "3", "4", "5", "6", "7", "8", "9">>
Digits == {DigitChar[i] : i \in 1..10}
DigitValue(c) == (CHOOSE i \in 1..10 : DigitChar[i] = c) - 1

\* str(n) of a natural number
RECURSIVE StrOfNat(_)
StrOfNat(n) ==
    IF n < 10 THEN <<DigitChar[n + 1]>>
    ELSE StrOfNat(n \div 10) \o <<DigitChar[(n % 10) + 1]>>

\* f"{success:.2f}" of a score given in hundredths
Format2f(h) ==
    StrOfNat(h \div 100) \o <<".">> \o
        <<DigitChar[((h \div 10) % 10) + 1], DigitChar[(h % 10) + 1]>>

\* f"{types}_step_{step}_success_{success:.2f}.pth"
SaveFileName(types, step, success) ==
    types \o <<"_", "s", "t", "e", "p", "_">> \o StrOfNat(step)
          \o <<"_", "s", "u", "c", "c", "e", "s", "s", "_">> \o Format2f(success)
          \o <<".", "p", "t", "h">>

\* "{}-{}.pth".format(types, min_step)
RemoveFileName(types, min_step) ==
    types \o <<"-">> \o StrOfNat(min_step) \o <<".", "p", "t", "h">>

\* li.split("/")[-1][start:-4] of a file name
StepField(name, start) == SubSeq(name, start + 1, Len(name) - 4)

\* Whether int(s) returns: s is digits after an optional sign (the names here
\* hold no blanks and no underscore between two digits)
IsIntLiteral(s) ==
    LET body == IF s # <<>> /\ Head(s) \in {"-", "+"} THEN Tail(s) ELSE s
    IN  body # <<>> /\ \A i \in 1..Len(body) : body[i] \in Digits

RECURSIVE NatOfDigits(_, _)
NatOfDigits(s, acc) ==
    IF s = <<>> THEN acc ELSE NatOfDigits(Tail(s), 10 * acc + DigitValue(Head(s)))

\* int(s) of an integer literal
IntOf(s) ==
    IF Head(s) = "-" THEN 0 - NatOfDigits(Tail(s), 0)
    ELSE IF Head(s) = "+" THEN NatOfDigits(Tail(s), 0)
    ELSE NatOfDigits(s, 0)

\* min of a non-empty set of integers
MinOf(S) == CHOOSE m \in S : \A x \in S : m <= x

\* len(model_list) > MAX_MODEL - 1
RetentionReached(fs, limit) == Cardinality(fs) > limit - 1

\* save_model(model, step, logs_path, types, MAX_MODEL, success): the files
\* of logs_path it leaves and the exception it raises
SaveModelResult(fs, step, types, limit, success) ==
    LET start == Len(types) + 1
        written_fs(base) == base \cup {SaveFileName(types, step, success)}
    IN  IF RetentionReached(fs, limit)
        THEN IF fs = {} \/ \E f \in fs : ~IsIntLiteral(StepField(f, start))
             THEN \* int(...) of a name that is no integer, or min([])
                  [raised |-> "ValueError", files |-> fs]
             ELSE LET min_step == MinOf({IntOf(StepField(f, start)) : f \in fs})
                      victim == RemoveFileName(types, min_step)
                  IN  IF min_step < 0 \/ victim \notin fs
                      THEN [raised |-> "FileNotFoundError", files |-> fs]
                      ELSE [raised |-> None, files |-> written_fs(fs \ {victim})]
        ELSE [raised |-> None, files |-> written_fs(fs)]

SaveModel ==
    /\ unit = "save_model"
    /\ ncalls < MaxSaves
    /\ \E step \in SaveSteps, success \in SaveScores :
        LET r == SaveModelResult(files, step, Types, MAX_MODEL, success)
        IN  /\ files' = r.files
            /\ raised' = r.raised
            /\ args' = [step |-> step, types |-> Types, MAX_MODEL |-> MAX_MODEL,
                        success |-> success]
    /\ op' = "save_model"
    /\ ret' = None
    /\ ncalls' = ncalls + 1
    /\ UNCHANGED <<MAX_MODEL, unit, rb, mrb, idxs, tk, env, hist, written, pushed>>

Units == {"ReplayBuffer", "ReplayBufferMultimodal", "BufferPair", "TopKLogger",
          "get_cost", "get_done", "save_model"}

\* The objects after construction.  The object under exercise is built with
\* every configuration; the others with a fixed one.
Init ==
    /\ unit \in Units
    /\ op = "init"
    /\ IF unit = "get_cost" THEN args \in CostInputs ELSE args = None
    /\ ret = None
    /\ raised = None
    /\ idxs = None
    /\ \E c \in 1..MaxCap :
        /\ unit \notin {"ReplayBuffer", "BufferPair"} => c = 1
        /\ rb = ReplayBufferInit(c)
    /\ \E c \in 1..MaxCap :
        /\ unit \notin {"ReplayBufferMultimodal", "BufferPair"} => c = 1
        /\ unit = "BufferPair" => c = rb.max_size
        /\ mrb = ReplayBufferMultimodalInit(c)
    /\ \E k \in 1..MaxK :
        /\ unit # "TopKLogger" => k = 1
        /\ tk = TopKLoggerInit(k)
    /\ \E ct \in CostTypes \cup {"other"}, rt \in ReturnTypes, sh \in BOOLEAN,
          rw \in Rewards, pn \in Penalties, dt \in DoneTypes \cup {"other"} :
        /\ unit # "get_cost" => (ct = "dense_ell" /\ rt = "reward" /\ ~sh)
        /\ unit # "get_done" => dt = "toEnd"
        /\ env = EnvInit(ct, rt, sh, rw, pn, dt)
    /\ files = {}
    /\ MAX_MODEL \in 1..MaxModel
    /\ unit # "save_model" => MAX_MODEL = 1
    /\ ncalls = 0
    /\ hist = <<>>
    /\ written = {}
    /\ pushed = <<>>

Next ==
    \/ Store
    \/ SampleBatch
    \/ MStore
    \/ MSampleBatch
    \/ StorePair
    \/ Push
    \/ BestCkpt
    \/ GetCost
    \/ GetDone
    \/ SaveModel

Spec == Init /\ [][Next]_vars

\* ------------------------------------------------------------- properties

\* The transition slot i of a flat buffer holds
SlotOf(b, i) ==
    [obs |-> b.obs_buf[i], act |-> b.act_buf[i], rew |-> b.rew_buf[i],
     next_obs |-> b.obs2_buf[i], done |-> b.done_buf[i], lx |-> b.lx_buf[i],
     gx |-> b.gx_buf[i]]

\* Entry i of a batch of the flat buffer, as a transition
EntryOf(batch, i) ==
    [obs |-> batch.obs[i], act |-> batch.act[i], rew |-> batch.rew[i],
     next_obs |-> batch.obs2[i], done |-> batch.done[i], lx |-> batch.lx[i],
     gx |-> batch.gx[i]]

\* The last n transitions stored
LastStored(n) == { hist[j] : j \in (Len(hist) - n + 1)..Len(hist) }

\* C1: once capacity-many transitions have been stored, size equals the
\* capacity and the slots hold exactly the last capacity-many stored
\* transitions, every field of a slot coming from one store call: the j-th
\* store call's transition sits in slot (j - 1) mod capacity.
C1_FifoEviction ==
    (unit = "ReplayBuffer" /\ Len(hist) >= rb.max_size) =>
        /\ rb.size = rb.max_size
        /\ \A j \in (Len(hist) - rb.max_size + 1)..Len(hist) :
              SlotOf(rb, (j - 1) % rb.max_size) = hist[j]

C1_Witness ==
    /\ unit = "ReplayBuffer"
    /\ op = "store"
    /\ rb.max_size = 2
    /\ Len(hist) = 3
    /\ hist[1] # hist[3]
    /\ SlotOf(rb, 0) = hist[3]
    /\ SlotOf(rb, 1) = hist[2]

\* C7: on a buffer of size s >= 1, sample_batch(n) returns n entries, every
\* index it draws lies in [0, s) and names a slot a store call has written, and
\* every entry is one of the last s transitions stored.
C7_SampleMembership ==
    (unit = "ReplayBuffer" /\ op = "sample_batch" /\ rb.size >= 1) =>
        /\ raised = None
        /\ \A f \in {"obs", "obs2", "act", "rew", "done", "lx", "gx"} :
              DOMAIN ret[f] = 1..args
        /\ \A i \in 1..args :
              /\ idxs[i] \in 0..(rb.size - 1)
              /\ idxs[i] \in written
              /\ EntryOf(ret, i) \in LastStored(rb.size)

C7_Witness ==
    /\ unit = "ReplayBuffer"
    /\ op = "sample_batch"
    /\ raised = None
    /\ args = 2
    /\ idxs[1] # idxs[2]
    /\ Len(hist) > rb.max_size
    /\ EntryOf(ret, 1) # EntryOf(ret, 2)

\* The scores of the retained entries, in queue order
RetainedScores == [i \in 1..Len(tk.checkpoint_queue) |-> tk.checkpoint_queue[i][1]]

\* A sequence of numbers sorted from the highest to the lowest
RECURSIVE InsertDesc(_, _)
InsertDesc(sorted, x) ==
    IF sorted = <<>> THEN <<x>>
    ELSE IF x >= Head(sorted) THEN <<x>> \o sorted
    ELSE <<Head(sorted)>> \o InsertDesc(Tail(sorted), x)

RECURSIVE SortDesc(_)
SortDesc(q) == IF q = <<>> THEN <<>> ELSE InsertDesc(SortDesc(Tail(q)), Head(q))

\* C2: the multiset of retained scores is the min(K, n) highest of the n
\* scores pushed so far, and at most K entries are retained.
C2_TopKRetained ==
    unit = "TopKLogger" =>
        /\ Len(tk.checkpoint_queue) <= tk.max_to_keep
        /\ SortDesc(RetainedScores) =
              SubSeq(SortDesc(pushed), 1, Min(tk.max_to_keep, Len(pushed)))

C2_Witness ==
    /\ unit = "TopKLogger"
    /\ tk.max_to_keep = 2
    /\ pushed = <<10, 90, 50, 95>>
    /\ SortDesc(RetainedScores) = <<95, 90>>

\* The number of entries of q equal to x
Count(q, x) == Cardinality({i \in 1..Len(q) : q[i] = x})

\* q2 holds the entries of q1 and one more entry `item`
AddsOne(q1, q2, item) ==
    /\ Len(q2) = Len(q1) + 1
    /\ \A x \in Scores \X Ckpts :
          Count(q2, x) = Count(q1, x) + (IF x = item THEN 1 ELSE 0)

\* q2 holds the entries of q1 with the entry at position i replaced by `item`
ReplacesAt(q1, q2, i, item) ==
    /\ Len(q2) = Len(q1)
    /\ \A x \in Scores \X Ckpts :
          Count(q2, x) = Count(q1, x) - (IF x = q1[i] THEN 1 ELSE 0)
                                      + (IF x = item THEN 1 ELSE 0)

\* The lowest score of a non-empty queue
MinScore(q) == CHOOSE m \in {q[i][1] : i \in 1..Len(q)} : \A i \in 1..Len(q) : m <= q[i][1]
\* The highest number of a non-empty sequence
MaxOf(q) == CHOOSE m \in {q[i] : i \in 1..Len(q)} : \A i \in 1..Len(q) : m >= q[i]

\* C8: push returns true and inserts when fewer than K entries are retained;
\* with K retained it returns true, removing one minimum-score entry and
\* inserting the new one, only if the score is strictly above the minimum;
\* otherwise it returns false and leaves the collection as it was.
C8_PushEffect ==
    [][(unit = "TopKLogger" /\ op' = "push") =>
        LET q == tk.checkpoint_queue
            item == <<args'.success, args'.ckpt>>
        IN  /\ raised' = None
            /\ tk'.max_to_keep = tk.max_to_keep
            /\ IF Len(q) < tk.max_to_keep
               THEN ret' = TRUE /\ AddsOne(q, tk'.checkpoint_queue, item)
               ELSE IF MinScore(q) < args'.success
               THEN /\ ret' = TRUE
                    /\ \E i \in 1..Len(q) :
                          /\ q[i][1] = MinScore(q)
                          /\ ReplacesAt(q, tk'.checkpoint_queue, i, item)
               ELSE ret' = FALSE /\ tk' = tk]_vars

C8_Witness ==
    /\ unit = "TopKLogger"
    /\ op = "push"
    /\ ret = FALSE
    /\ Len(tk.checkpoint_queue) = 2
    /\ args.success = MinScore(tk.checkpoint_queue)
    /\ \A i \in 1..2 : tk.checkpoint_queue[i][2] # args.ckpt

\* C9: after at least one push, best_ckpt returns the identifier of a retained
\* entry whose score is the highest retained score, which is the highest score
\* ever pushed, and leaves the retained collection as it was.
C9_BestCkpt ==
    [][(unit = "TopKLogger" /\ op' = "best_ckpt" /\ pushed # <<>>) =>
        /\ raised' = None
        /\ tk' = tk
        /\ \E i \in 1..Len(tk.checkpoint_queue) :
              /\ tk.checkpoint_queue[i][2] = ret'
              /\ tk.checkpoint_queue[i][1] = MaxOf(RetainedScores)
        /\ MaxOf(RetainedScores) = MaxOf(pushed)]_vars

C9_Witness ==
    /\ unit = "TopKLogger"
    /\ op = "best_ckpt"
    /\ raised = None
    /\ tk.checkpoint_queue = <<<<50, 2>>, <<95, 1>>>>
    /\ ret = 1

C10_WitnessMultimodal ==
    /\ unit = "ReplayBufferMultimodal"
    /\ op = "sample_batch"
    /\ raised = "ValueError"
    /\ mrb = ReplayBufferMultimodalInit(2)

C10_WitnessTopK ==
    /\ unit = "TopKLogger"
    /\ op = "best_ckpt"
    /\ raised = "IndexError"
    /\ tk.checkpoint_queue = <<>>

\* C3: within one episode, once failure_mode holds a value no later get_done
\* call changes it.
C3_FailureModeSetOnce ==
    [][(unit = "get_done" /\ env.failure_mode # None) =>
          env'.failure_mode = env.failure_mode]_vars

\* What get_done does to failure_mode: None is set to out_of_env or success,
\* out_of_env may be overwritten by success, success is never overwritten.
C3_Observed ==
    [][unit = "get_done" =>
        /\ (env.failure_mode = "success" => env'.failure_mode = "success")
        /\ (env.failure_mode = "out_of_env" =>
              env'.failure_mode \in {"out_of_env", "success"})]_vars

\* The bonus of the claims: -reward in reward mode, +reward in cost mode
Bonus == IF env.return_type = "reward" THEN 0 - env.reward ELSE env.reward

\* C4: with shape_reward enabled and any of the four cost kinds, get_cost
\* returns, and at every entry whose success flag is true the returned cost
\* and the returned target margin equal the bonus.
C4_SuccessForcedToBonus ==
    (unit = "get_cost" /\ op = "get_cost" /\ env.shape_reward
        /\ env.costType \in CostTypes) =>
        /\ raised = None
        /\ \A i \in Batch :
              args.success[i] => (ret.cost[i] = Bonus /\ ret.l_x[i] = Bonus)

\* What get_cost does there: 'sparse' raises; for the other kinds the target
\* margin is the bonus at every success entry, and the cost is the bonus at
\* every success entry that is not also a fail entry of kind dense or max_ell_g.
C4_Observed ==
    (unit = "get_cost" /\ op = "get_cost" /\ env.shape_reward
        /\ env.costType \in CostTypes) =>
        IF env.costType = "sparse" THEN raised = "TypeError" /\ ret = None
        ELSE /\ raised = None
             /\ \A i \in Batch :
                   args.success[i] =>
                      /\ ret.l_x[i] = Bonus
                      /\ (env.costType = "dense_ell" \/ ~args.fail[i]) =>
                            ret.cost[i] = Bonus

\* C5: with shape_reward disabled get_cost returns l_x for dense_ell,
\* l_x + g_x for dense, 0 for sparse, min(l_x, g_x) (reward mode) or
\* max(l_x, g_x) (cost mode) for max_ell_g; any other cost kind raises.
C5_CostFormula ==
    (unit = "get_cost" /\ op = "get_cost") =>
        /\ (env.costType \notin CostTypes) => (raised = "ValueError" /\ ret = None)
        /\ (env.costType \in CostTypes /\ ~env.shape_reward) =>
              /\ raised = None
              /\ ret.l_x = args.l_x
              /\ ret.g_x = args.g_x
              /\ env.costType = "sparse" => ret.cost = 0
              /\ env.costType = "dense_ell" =>
                    \A i \in Batch : ret.cost[i] = args.l_x[i]
              /\ env.costType = "dense" =>
                    \A i \in Batch : ret.cost[i] = args.l_x[i] + args.g_x[i]
              /\ env.costType = "max_ell_g" =>
                    \A i \in Batch :
                       ret.cost[i] =
                          IF env.return_type = "reward"
                          THEN (IF args.l_x[i] <= args.g_x[i]
                                THEN args.l_x[i] ELSE args.g_x[i])
                          ELSE (IF args.l_x[i] >= args.g_x[i]
                                THEN args.l_x[i] ELSE args.g_x[i])

C5_Witness ==
    /\ unit = "get_cost"
    /\ op = "get_cost"
    /\ ~env.shape_reward
    /\ env.costType = "max_ell_g"
    /\ env.return_type = "reward"
    /\ args.l_x = <<1, -1>>
    /\ args.g_x = <<-1, 1>>
    /\ ret.cost = <<-1, -1>>

\* C6: get_done returns the within-env check for toEnd, fail for fail,
\* fail or success for TF, fail or success or the within-env check for all,
\* real failure or success or the within-env check for real; any other done
\* kind raises; toEnd, fail, TF and the raising call leave failure_mode alone.
C6_DoneFormula ==
    [][(unit = "get_done" /\ op' = "get_done") =>
        LET a == args'
            dt == env.doneType
        IN  /\ dt = "toEnd" => (raised' = None /\ ret' = a.within_env)
            /\ dt = "fail" => (raised' = None /\ ret' = a.fail)
            /\ dt = "TF" => (raised' = None /\ ret' = (a.fail \/ a.success))
            /\ dt = "all" =>
                  (raised' = None /\ ret' = (a.fail \/ a.success \/ a.within_env))
            /\ dt = "real" =>
                  (raised' = None /\ ret' = (a.real_fail \/ a.success \/ a.within_env))
            /\ dt \notin DoneTypes => (raised' = "ValueError" /\ ret' = None)
            /\ dt \notin {"all", "real"} => env' = env]_vars

C6_Witness ==
    /\ unit = "get_done"
    /\ op = "get_done"
    /\ env.doneType = "real"
    /\ args = [success |-> FALSE, fail |-> TRUE, within_env |-> FALSE,
               real_fail |-> FALSE]
    /\ ret = FALSE

\* The transition slot i of a multimodal buffer holds
MSlotOf(b, i) ==
    [obs |-> [s \in DOMAIN b.obs_buf |-> b.obs_buf[s][i]],
     act |-> b.act_buf[i], rew |-> b.rew_buf[i],
     next_obs |-> [s \in DOMAIN b.obs2_buf |-> b.obs2_buf[s][i]],
     done |-> b.done_buf[i], lx |-> b.lx_buf[i], gx |-> b.gx_buf[i]]

\* C11: run side by side on one capacity and one sequence of store calls, the
\* two buffers have equal ptr and equal size after every call, and every
\* written slot of the multimodal buffer holds, in every stream and in act,
\* rew, done, lx, gx, the values of the one store call whose transition the
\* flat buffer holds in that slot; unwritten slots are zero in both.
C11_SameStoreContract ==
    unit = "BufferPair" =>
        /\ mrb.ptr = rb.ptr
        /\ mrb.size = rb.size
        /\ mrb.max_size = rb.max_size
        /\ DOMAIN mrb.obs_buf = Streams
        /\ \A i \in 0..(rb.max_size - 1) :
              IF i \in written
              THEN \E j \in 1..Len(hist) :
                      /\ SlotOf(rb, i) = hist[j].flat
                      /\ MSlotOf(mrb, i) = hist[j].multi
              ELSE /\ SlotOf(rb, i) = SlotOf(ReplayBufferInit(1), 0)
                   /\ MSlotOf(mrb, i) = MSlotOf(ReplayBufferMultimodalInit(1), 0)

C11_Witness ==
    /\ unit = "BufferPair"
    /\ op = "store"
    /\ rb.max_size = 2
    /\ Len(hist) = 3
    /\ hist[1] # hist[3]
    /\ MSlotOf(mrb, 0) = hist[3].multi
    /\ MSlotOf(mrb, 1) = hist[2].multi
    /\ SlotOf(rb, 0) = hist[3].flat

\* C13: with shape_reward enabled and cost kind dense_ell, dense or max_ell_g,
\* the returned target margin differs from the input only at entries whose
\* success flag is true, and the returned safety margin differs from the input
\* only at entries whose fail flag is true.
C13_MarginFrame ==
    (unit = "get_cost" /\ op = "get_cost" /\ env.shape_reward
        /\ env.costType \in {"dense_ell", "dense", "max_ell_g"}) =>
        /\ raised = None
        /\ \A i \in Batch :
              /\ ret.l_x[i] # args.l_x[i] => args.success[i]
              /\ ret.g_x[i] # args.g_x[i] => args.fail[i]

\* What get_cost does there: for dense_ell the cost is the l_x array itself, so
\* the write of the penalty into cost at fail entries lands in the target
\* margin; for dense and max_ell_g the frame of the claim holds, and the safety
\* margin changes only at fail entries for all three kinds.
C13_Observed ==
    (unit = "get_cost" /\ op = "get_cost" /\ env.shape_reward
        /\ env.costType \in {"dense_ell", "dense", "max_ell_g"}) =>
        /\ raised = None
        /\ \A i \in Batch :
              /\ ret.g_x[i] # args.g_x[i] => args.fail[i]
              /\ ret.l_x[i] # args.l_x[i] =>
                    (args.success[i] \/ (env.costType = "dense_ell" /\ args.fail[i]))
              /\ (env.costType = "dense_ell" /\ args.fail[i] /\ ~args.success[i]) =>
                    ret.l_x[i] = (IF env.return_type = "reward"
                                  THEN 0 - env.penalty ELSE env.penalty)

\* C12: every save_model call completes and writes the file named
\* {label}_step_{step}_success_{score}, and the directory never holds more than
\* MAX_MODEL checkpoint files.
C12_SaveCompletesWithinLimit ==
    (unit = "save_model" /\ op = "save_model") =>
        /\ raised = None
        /\ SaveFileName(args.types, args.step, args.success) \in files
        /\ Cardinality(files) <= MAX_MODEL

\* What save_model does: it writes the file while fewer than MAX_MODEL files
\* are in the directory; from then on the step of a file it wrote itself is no
\* integer literal, so the call raises ValueError and the directory stays as
\* it was: nothing is deleted and nothing is written.
C12_Observed ==
    [][(unit = "save_model" /\ op' = "save_model") =>
        IF Cardinality(files) < MAX_MODEL
        THEN /\ raised' = None
             /\ files' = files \cup {SaveFileName(args'.types, args'.step, args'.success)}
        ELSE raised' = "ValueError" /\ files' = files]_vars

====
